---- MODULE Spec2Model ----
(***************************************************************************)
(* Model of parser_windows.py: the NASDAQ ITCH 5.0 reader that frames the  *)
(* byte stream with a tag -> length table, decodes the 'P' (non-cross      *)
(* trade) messages and prints an hourly VWAP table per stock.              *)
(*                                                                         *)
(* Representation of values that do not fit a TLC integer:                 *)
(*   - a timestamp t (nanoseconds, up to 2^48-1) is the record             *)
(*     [sec |-> t div 10^9, nsec |-> t mod 10^9];                          *)
(*   - a float is the IEEE 754 double [m, e] of value m * 2^e, with m a    *)
(*     natural number of exactly 53 bits held in limbs of 15 bits (or 0);  *)
(*     the operations round to nearest, ties to even, as the hardware;     *)
(*   - a VWAP is the integer k of the rounded float k / 100, or NaN.       *)
(***************************************************************************)
EXTENDS Integers, Sequences, FiniteSets, TLC

(***************************************************************************)
(* Bounds of the model.                                                    *)
(***************************************************************************)
\* Largest number of chunks (messages or stray tag bytes) in the input file.
MaxMsgs == 4

\* Largest number of process_trade calls in a record sequence.
MaxTrades == 4

(***************************************************************************)
(* Program constants.                                                      *)
(***************************************************************************)
\* The msg_size_table of __main__: tag byte -> body length.
NASDAQ_MSG_SIZES ==
    (83 :> 11) @@ (82 :> 38) @@ (72 :> 24) @@ (89 :> 19) @@ (76 :> 25) @@
    (86 :> 34) @@ (87 :> 11) @@ (75 :> 27) @@ (65 :> 35) @@ (70 :> 39) @@
    (69 :> 30) @@ (67 :> 35) @@ (88 :> 22) @@ (68 :> 18) @@ (85 :> 34) @@
    (80 :> 43) @@ (81 :> 39) @@ (66 :> 18) @@ (73 :> 49) @@ (78 :> 19)

\* b'P', the tag of a Non-Cross Trade Message.
TradeTag == 80

\* struct.calcsize('>4s6sQcI8sIQ')
TradeFormatSize == 43

\* The divisor 1e9 of convert_time (nanoseconds per second).
NsPerSec == 1000000000

\* Variant: the sentinel stock is the empty text.
NA_Empty == <<>>

\* The sentinel stock "N/A" of parse, as code points.
NA == <<78, 47, 65>>

\* The value pandas gives 0.0 / 0 (every real VWAP is >= 0).
NaN == -1

\* currentHour before the first trade (every real hour is in 0..23).
None == -1

(***************************************************************************)
(* Sequence helpers.                                                       *)
(***************************************************************************)
Min(a, b) == IF a < b THEN a ELSE b

\* Lexicographic order of two sequences of integers (Python str ordering).
RECURSIVE LexLess(_, _)
LexLess(a, b) ==
    IF b = <<>> THEN FALSE
    ELSE IF a = <<>> THEN TRUE
    ELSE IF Head(a) # Head(b) THEN Head(a) < Head(b)
    ELSE LexLess(Tail(a), Tail(b))

\* The elements of a finite set of sequences in ascending order.
RECURSIVE SortedSeq(_)
SortedSeq(S) ==
    IF S = {} THEN <<>>
    ELSE LET m == CHOOSE x \in S : \A y \in S \ {x} : LexLess(x, y)
         IN  <<m>> \o SortedSeq(S \ {m})

(***************************************************************************)
(* Natural numbers beyond 2^31: little-endian sequences of 15-bit limbs    *)
(* without leading zero limbs (<<>> is 0).                                 *)
(***************************************************************************)
Limb == 32768

RECURSIVE Pow2(_)
Pow2(k) == IF k = 0 THEN 1 ELSE 2 * Pow2(k - 1)

RECURSIVE BigNorm(_)
BigNorm(a) ==
    IF a # <<>> /\ a[Len(a)] = 0 THEN BigNorm(SubSeq(a, 1, Len(a) - 1)) ELSE a

RECURSIVE BigOfInt(_)
BigOfInt(n) == IF n = 0 THEN <<>> ELSE <<n % Limb>> \o BigOfInt(n \div Limb)

RECURSIVE IntOfBig(_)
IntOfBig(a) == IF a = <<>> THEN 0 ELSE Head(a) + Limb * IntOfBig(Tail(a))

\* a * s + c for 0 <= s < 2^16.
RECURSIVE BigMulSmallC(_, _, _)
BigMulSmallC(a, s, c) ==
    IF a = <<>> THEN BigOfInt(c)
    ELSE LET p == Head(a) * s + c
         IN  <<p % Limb>> \o BigMulSmallC(Tail(a), s, p \div Limb)

BigMulSmall(a, s) == BigNorm(BigMulSmallC(a, s, 0))

RECURSIVE BigAddC(_, _, _)
BigAddC(a, b, c) ==
    IF a = <<>> /\ b = <<>> THEN BigOfInt(c)
    ELSE LET x == (IF a = <<>> THEN 0 ELSE Head(a))
                  + (IF b = <<>> THEN 0 ELSE Head(b)) + c
         IN  <<x % Limb>> \o BigAddC(IF a = <<>> THEN <<>> ELSE Tail(a),
                                     IF b = <<>> THEN <<>> ELSE Tail(b),
                                     x \div Limb)

BigAdd(a, b) == BigAddC(a, b, 0)

\* Quotient and remainder of the limbs a[1..i] (with r carried in from above)
\* by d, for 0 < d < 2^16.
RECURSIVE BigDivSmallFrom(_, _, _, _)
BigDivSmallFrom(a, d, i, r) ==
    IF i = 0 THEN [q |-> <<>>, r |-> r]
    ELSE LET x    == r * Limb + a[i]
             rest == BigDivSmallFrom(a, d, i - 1, x % d)
         IN  [q |-> Append(rest.q, x \div d), r |-> rest.r]

BigDivSmall(a, d) ==
    LET x == BigDivSmallFrom(a, d, Len(a), 0)
    IN  [q |-> BigNorm(x.q), r |-> x.r]

RECURSIVE IntBitLen(_)
IntBitLen(n) == IF n = 0 THEN 0 ELSE 1 + IntBitLen(n \div 2)

BigBitLen(a) ==
    IF a = <<>> THEN 0 ELSE 15 * (Len(a) - 1) + IntBitLen(a[Len(a)])

\* a * 2^k
BigShl(a, k) ==
    IF a = <<>> THEN <<>>
    ELSE [i \in 1..(k \div 15) |-> 0] \o BigMulSmall(a, Pow2(k % 15))

\* a div 2^k, and whether a 1 bit was shifted out.
BigShr(a, k) ==
    LET nl == k \div 15
    IN  IF nl >= Len(a) THEN [q |-> <<>>, sticky |-> a # <<>>]
        ELSE LET d == BigDivSmall(SubSeq(a, nl + 1, Len(a)), Pow2(k % 15))
             IN  [q |-> d.q,
                  sticky |-> d.r # 0 \/ \E i \in 1..nl : a[i] # 0]

BigOdd(a) == a # <<>> /\ a[1] % 2 = 1

\* (a + fraction) / 2^s rounded to nearest, ties to even, for s >= 1; sticky
\* says that a nonzero fraction below a was already dropped.
BigShrRound(a, s, sticky) ==
    LET x  == BigShr(a, s - 1)
        m  == BigShr(x.q, 1).q
        up == BigOdd(x.q) /\ (x.sticky \/ sticky \/ BigOdd(m))
    IN  IF up THEN BigNorm(BigAdd(m, <<1>>)) ELSE m

(***************************************************************************)
(* IEEE 754 doubles in the normal range: [m, e] is m * 2^e with            *)
(* 2^52 <= m < 2^53, and [<<>>, 0] is 0.0.                                 *)
(***************************************************************************)
FZero == [m |-> <<>>, e |-> 0]

\* The double of value a * 2^e for a of at most 53 bits, or a = 2^53.
FNormal(a, e) ==
    LET L == BigBitLen(a)
    IN  IF L = 0 THEN FZero
        ELSE IF L <= 53 THEN [m |-> BigShl(a, 53 - L), e |-> e - (53 - L)]
        ELSE [m |-> BigShr(a, L - 53).q, e |-> e + (L - 53)]

\* The double nearest to (a + fraction) * 2^e.
FRound(a, e, sticky) ==
    LET L == BigBitLen(a)
    IN  IF L <= 53 THEN FNormal(a, e)
        ELSE FNormal(BigShrRound(a, L - 53, sticky), e + (L - 53))

\* float(n) for 0 <= n < 2^31.
FOfInt(n) == FNormal(BigOfInt(n), 0)

\* x * s for an integer 0 <= s < 2^16 (exactly a double).
FMulInt(x, s) == FRound(BigMulSmall(x.m, s), x.e, FALSE)

\* x / d for an integer 0 < d < 2^16 (exactly a double).
FDivInt(x, d) ==
    LET qr == BigDivSmall(BigShl(x.m, 30), d)
    IN  IF x.m = <<>> THEN FZero ELSE FRound(qr.q, x.e - 30, qr.r # 0)

\* x + y
FAdd(x, y) ==
    IF x.m = <<>> THEN y
    ELSE IF y.m = <<>> THEN x
    ELSE LET e0 == IF x.e < y.e THEN x.e ELSE y.e
         IN  FRound(BigAdd(BigShl(x.m, x.e - e0), BigShl(y.m, y.e - e0)),
                    e0, FALSE)

\* numpy.rint(x) as an integer: nearest, ties to even.
FRint(x) ==
    IF x.m = <<>> THEN 0
    ELSE IF x.e >= 0 THEN IntOfBig(BigShl(x.m, x.e))
    ELSE IntOfBig(BigShrRound(x.m, -x.e, FALSE))

(***************************************************************************)
(* struct decoding (Parser.parse).                                         *)
(***************************************************************************)
\* struct.unpack('>I', b): big-endian unsigned 32-bit integer.
UnpackU32(b) == ((b[1] * 256 + b[2]) * 256 + b[3]) * 256 + b[4]

\* struct.unpack('>Q', b'\x00\x00' + b6)[0] as [sec, nsec].  With x the
\* integer of the first five bytes, t = 256 * x + b6[6] and
\* 10^9 = 256 * 3906250, so t div 10^9 = x div 3906250 and
\* t mod 10^9 = 256 * (x mod 3906250) + b6[6]; x is divided byte by byte.
RECURSIVE Unpack48From(_, _, _, _)
Unpack48From(b6, k, q, r) ==
    IF k > 5 THEN [sec |-> q, nsec |-> 256 * r + b6[6]]
    ELSE LET r2 == 256 * r + b6[k]
         IN  Unpack48From(b6, k + 1, 256 * q + (r2 \div 3906250), r2 % 3906250)

UnpackTimestamp(b6) == Unpack48From(b6, 1, 0, 0)

\* bytes.strip(): ASCII whitespace removed from both ends.
Whitespace == {9, 10, 11, 12, 13, 32}

RECURSIVE LStrip(_)
LStrip(b) ==
    IF b # <<>> /\ Head(b) \in Whitespace THEN LStrip(Tail(b)) ELSE b

RECURSIVE RStrip(_)
RStrip(b) ==
    IF b # <<>> /\ b[Len(b)] \in Whitespace
    THEN RStrip(SubSeq(b, 1, Len(b) - 1)) ELSE b

Strip(b) == RStrip(LStrip(b))

\* bytes.decode("utf-8"): [ok |-> TRUE, cps |-> the code points], or
\* ok = FALSE where Python raises UnicodeDecodeError.
Cont(x) == x \in 128..191

RECURSIVE Utf8Decode(_)
Utf8Decode(b) ==
    IF b = <<>> THEN [ok |-> TRUE, cps |-> <<>>]
    ELSE LET b1 == b[1]
             n  == IF b1 < 128 THEN 1
                   ELSE IF b1 \in 194..223 THEN 2
                   ELSE IF b1 \in 224..239 THEN 3
                   ELSE IF b1 \in 240..244 THEN 4
                   ELSE 0
             ok == /\ n > 0
                   /\ Len(b) >= n
                   /\ \A i \in 2..n : Cont(b[i])
                   /\ (b1 = 224 => b[2] >= 160)
                   /\ (b1 = 237 => b[2] <= 159)
                   /\ (b1 = 240 => b[2] >= 144)
                   /\ (b1 = 244 => b[2] <= 143)
             cp == IF n = 1 THEN b1
                   ELSE IF n = 2 THEN (b1 - 192) * 64 + (b[2] - 128)
                   ELSE IF n = 3
                        THEN ((b1 - 224) * 64 + (b[2] - 128)) * 64 + (b[3] - 128)
                   ELSE (((b1 - 240) * 64 + (b[2] - 128)) * 64 + (b[3] - 128)) * 64
                        + (b[4] - 128)
         IN  IF ~ok THEN [ok |-> FALSE, cps |-> <<>>]
             ELSE LET rest == Utf8Decode(SubSeq(b, n + 1, Len(b)))
                  IN  IF ~rest.ok THEN rest
                      ELSE [ok |-> TRUE, cps |-> <<cp>> \o rest.cps]

\* Variant: the symbol is decoded without being stripped.
DecodeStock_NoStrip(b8) ==
    LET d == Utf8Decode(b8)
    IN  IF d.ok THEN d.cps ELSE NA

\* The try/except of parse around the symbol.
DecodeStock(b8) ==
    LET d == Utf8Decode(Strip(b8))
    IN  IF d.ok THEN d.cps ELSE NA

\* struct.unpack('>4s6sQcI8sIQ', msg) raises struct.error unless the buffer
\* has exactly 43 bytes.
StructError(msg) == Len(msg) # TradeFormatSize

\* Parser.parse(msg) for a 43-byte msg: (timestamp, [stock, shares, price]).
parse(msg) ==
    [timestamp |-> UnpackTimestamp(SubSeq(msg, 5, 10)),
     parsed    |-> [Stock  |-> DecodeStock(SubSeq(msg, 24, 31)),
                    Shares |-> UnpackU32(SubSeq(msg, 20, 23)),
                    Price  |-> FDivInt(FOfInt(UnpackU32(SubSeq(msg, 32, 35))),
                                       10000)]]

(***************************************************************************)
(* Parser.convert_time.                                                    *)
(***************************************************************************)
\* n / d rounded to the nearest integer, ties to the even one (n >= 0, d > 0).
RoundHalfEven(n, d) ==
    LET q == n \div d
        r == n % d
    IN  IF 2 * r < d THEN q
        ELSE IF 2 * r > d THEN q + 1
        ELSE IF q % 2 = 0 THEN q ELSE q + 1

\* datetime.datetime.fromtimestamp(timestamp / 1e9): the value is rounded to
\* microseconds (half to even) and shown in the local time zone, offset
\* seconds east of UTC.  The result is the local second count since the epoch.
fromtimestamp(ts, offset) ==
    LET us == RoundHalfEven(ts.nsec, 1000)
        s  == IF us >= 1000000 THEN ts.sec + 1 ELSE ts.sec
    IN  s + offset

\* time.strftime('%H'): the two decimal digits of the hour of the day.
strftime_H(localsec) ==
    LET h == (localsec \div 3600) % 24
    IN  <<h \div 10, h % 10>>

\* int(text) for a two-digit text.
IntOfDigits(d) == 10 * d[1] + d[2]

convert_time(ts, offset) == strftime_H(fromtimestamp(ts, offset))

(***************************************************************************)
(* The pandas computation of process_trade (lines 112-119).                *)
(***************************************************************************)
\* panda["Total"] = panda["Shares"] * panda["Price"]
RowTotal(row) == FMulInt(row.Price, row.Shares)

\* groupby(...)["Shares"].sum() for the group of stock s (int64).
RECURSIVE SumShares(_, _)
SumShares(d, s) ==
    IF d = <<>> THEN 0
    ELSE (IF Head(d).Stock = s THEN Head(d).Shares ELSE 0)
         + SumShares(Tail(d), s)

\* groupby(...)["Total"].sum() for the group of stock s: the float64 totals
\* are added to acc one by one in row order.
RECURSIVE SumTotalFrom(_, _, _)
SumTotalFrom(d, s, acc) ==
    IF d = <<>> THEN acc
    ELSE SumTotalFrom(Tail(d), s,
                      IF Head(d).Stock = s THEN FAdd(acc, RowTotal(Head(d)))
                      ELSE acc)

SumTotal(d, s) == SumTotalFrom(d, s, FZero)

\* (Total / Shares).round(2): numpy multiplies by 100, takes rint and divides
\* by 100; the result is held as the integer rint gives.  0.0 / 0 is NaN.
VWAP(total, shares) ==
    IF shares = 0 THEN NaN ELSE FRint(FMulInt(FDivInt(total, shares), 100))

\* groupby("Stock").sum(), the VWAP column, reset_index, [["Stock", "VWAP"]]:
\* one row per stock, in ascending order of the stock.
VWAPTable(d) ==
    LET keys == SortedSeq({d[i].Stock : i \in DOMAIN d})
    IN  [k \in DOMAIN keys |->
            [Stock |-> keys[k],
             VWAP  |-> VWAP(SumTotal(d, keys[k]), SumShares(d, keys[k]))]]

(***************************************************************************)
(* Input files of the model: concatenations of at most MaxMsgs chunks,     *)
(* possibly cut short at the end.                                          *)
(***************************************************************************)
\* struct.pack('>I', x)
PackU32(x) ==
    <<x \div 16777216, (x \div 65536) % 256, (x \div 256) % 256, x % 256>>

\* 6-byte timestamps: 09:30:00.000000001, 10:15 and 11:00 after midnight.
TS_0930 == <<31, 26, 206, 217, 240, 1>>
TS_1015 == <<33, 143, 115, 100, 104, 0>>
TS_1100 == <<36, 4, 23, 238, 224, 0>>

\* 8-byte symbol fields: "AAPL    ", "MSFT    " and bytes that are not UTF-8.
SYM_AAPL == <<65, 65, 80, 76, 32, 32, 32, 32>>
SYM_MSFT == <<77, 83, 70, 84, 32, 32, 32, 32>>
SYM_BAD  == <<255, 254, 65, 32, 32, 32, 32, 32>>

\* The decoded stocks "AAPL" and "MSFT".
AAPL == <<65, 65, 80, 76>>
MSFT == <<77, 83, 70, 84>>

\* A 'P' message: tag, then the body in the layout '>4s6sQcI8sIQ'.
TradeMsg(ts6, shares, sym8, price) ==
    <<TradeTag>> \o <<0, 1, 0, 0>> \o ts6 \o <<0, 0, 0, 0, 0, 0, 0, 1>> \o <<66>>
        \o PackU32(shares) \o sym8 \o PackU32(price)
        \o <<0, 0, 0, 0, 0, 0, 0, 2>>

\* struct.pack('>Q', t)[2:] for the timestamp t = 10^9 * sec + nsec: the five
\* bytes of t div 256 = 3906250 * sec + nsec div 256, then t mod 256.
RECURSIVE BigBytes(_, _)
BigBytes(a, n) ==
    IF n = 0 THEN <<>>
    ELSE LET d == BigDivSmall(a, 256)
         IN  BigBytes(d.q, n - 1) \o <<d.r>>

PackTimestamp(ts) ==
    BigBytes(BigNorm(BigAdd(BigMulSmall(BigMulSmall(BigOfInt(ts.sec), 15625), 250),
                            BigOfInt(ts.nsec \div 256))), 5)
        \o <<ts.nsec % 256>>

\* str.encode("utf-8") of a text given by its code points.
RECURSIVE Utf8Encode(_)
Utf8Encode(cps) ==
    IF cps = <<>> THEN <<>>
    ELSE LET c == Head(cps)
             b == IF c < 128 THEN <<c>>
                  ELSE IF c < 2048 THEN <<192 + (c \div 64), 128 + (c % 64)>>
                  ELSE IF c < 65536
                       THEN <<224 + (c \div 4096), 128 + ((c \div 64) % 64),
                              128 + (c % 64)>>
                  ELSE <<240 + (c \div 262144), 128 + ((c \div 4096) % 64),
                         128 + ((c \div 64) % 64), 128 + (c % 64)>>
         IN  b \o Utf8Encode(Tail(cps))

\* The 8-byte symbol field of a text: its UTF-8 bytes, padded with spaces and
\* cut to the width of the field.
PackSymbol(cps) ==
    SubSeq(Utf8Encode(cps) \o <<32, 32, 32, 32, 32, 32, 32, 32>>, 1, 8)

\* The trade body of the fields f = [ts, symbol, shares, price].
EncodeBody(f) ==
    Tail(TradeMsg(PackTimestamp(f.ts), f.shares, PackSymbol(f.symbol), f.price))

\* The fields a round trip is tried on: the timestamps 0, 09:30:00.000000001,
\* 09:59:59.999999999 and 2^48 - 1; the symbols "", "AAPL", "ABCDEFGH", "A B",
\* "N/A", "\u00e9" and "ABCDEFG\u00e9"; shares and prices up to 2^31 - 1.
RoundTripFields ==
    [ts     : {[sec |-> 0, nsec |-> 0], [sec |-> 34200, nsec |-> 1],
               [sec |-> 35999, nsec |-> 999999999],
               [sec |-> 281474, nsec |-> 976710655]},
     symbol : {<<>>, AAPL, <<65, 66, 67, 68, 69, 70, 71, 72>>, <<65, 32, 66>>,
               <<78, 47, 65>>, <<233>>, <<65, 66, 67, 68, 69, 70, 71, 233>>},
     shares : {0, 100, 2147483647},
     price  : {0, 128200, 2147483647}]

\* An 'S' (system event) message: a tag of the table that is not the trade tag.
SystemMsg == <<83>> \o [i \in 1..11 |-> 0]

\* A byte that is not a key of the table ('Z').
UnknownTagByte == <<90>>

\* The trade messages a record sequence is drawn from.  At 9 o'clock: the
\* two AAPL trades of the 10.67 example, a third AAPL trade that brings the
\* exact VWAP of the three to 10.695, and a trade of zero shares; then a trade
\* at 10 and one at 11 o'clock whose symbol is not text.
TradeMsgs ==
    { TradeMsg(TS_0930, 100, SYM_AAPL, 100000),
      TradeMsg(TS_0930, 200, SYM_AAPL, 110000),
      TradeMsg(TS_0930, 4,   SYM_AAPL, 128200),
      TradeMsg(TS_0930, 0,   SYM_MSFT, 100000),
      TradeMsg(TS_1015, 100, SYM_MSFT, 110000),
      TradeMsg(TS_1100, 100, SYM_BAD,  100000) }

\* The bodies of TradeMsgs.
TradeBodies == {Tail(m) : m \in TradeMsgs}

\* The pieces an input file is made of.
Chunks ==
    { TradeMsg(TS_0930, 100, SYM_AAPL, 100000),
      TradeMsg(TS_1015, 100, SYM_MSFT, 110000),
      TradeMsg(TS_1100, 100, SYM_BAD,  100000),
      SystemMsg,
      UnknownTagByte }

RECURSIVE ChunkStreams(_)
ChunkStreams(n) ==
    IF n = 0 THEN {<<>>}
    ELSE LET prev == ChunkStreams(n - 1)
         IN  prev \cup {s \o c : s \in prev, c \in Chunks}

\* Number of bytes missing at the end of the file.
Cuts == {0, 3}

InputFiles ==
    {SubSeq(s, 1, Len(s) - Min(c, Len(s))) : s \in ChunkStreams(MaxMsgs), c \in Cuts}

\* Offsets of the local time zone from UTC, in seconds: UTC, and UTC+14 where
\* 09:30 UTC is 23:30 and 10:15 UTC is 00:15.
TZOffsets == {0, 50400}

(***************************************************************************)
(* State.                                                                  *)
(***************************************************************************)
VARIABLES
    stream,       \* the decompressed bytes behind self.binary_data
    pos,          \* number of bytes of stream already read
    closed,       \* self.binary_data has been closed
    msg_type,     \* the variable msg_type of __main__ (<<>> is b'')
    pc,           \* position of __main__: "read", "check", "close", "save", "exit";
                  \* "trades" when process_trade is driven record by record
    outcome,      \* "running", or the exception that ended the run
    data,         \* self.data
    currentHour,  \* self.currentHour
    out,          \* the tables printed so far, with their "time:" label
    files,        \* files[h]: content of the file str(h) + "00.txt", <<>> if none
    tz,           \* offset of the machine's local time zone
    trades,       \* history: every record process_trade has accepted, with
                  \* its hour, the current hour it met, its timestamp, its
                  \* 43 bytes, the row appended to data, and stock, shares
                  \* and price in ten-thousandths as decoded
    dataIdx,      \* history: for each row of data, its index in trades
    outIdx        \* history: for each printed table, the indices of its rows

vars == <<stream, pos, closed, msg_type, pc, outcome, data, currentHour, out,
          files, tz, trades, dataIdx, outIdx>>

aggVars == <<data, currentHour, out, files, trades, dataIdx, outIdx>>

Init ==
    /\ stream \in InputFiles
    /\ tz \in TZOffsets
    /\ pos = 0
    /\ closed = FALSE
    /\ msg_type = <<>>
    /\ pc = "read"
    /\ outcome = "running"
    /\ data = <<>>
    /\ currentHour = None
    /\ out = <<>>
    /\ files = [h \in 0..23 |-> <<>>]
    /\ trades = <<>>
    /\ dataIdx = <<>>
    /\ outIdx = <<>>

(***************************************************************************)
(* Reading.                                                                *)
(***************************************************************************)
\* self.binary_data.read(n): at most n bytes, fewer at the end of the file.
Read(n) == SubSeq(stream, pos + 1, Min(pos + n, Len(stream)))

\* while(msg_type): an empty bytes object is false.
LoopContinues(t) == t # <<>>

\* Variant: the tag is looked at without moving the cursor.
ReadBinaryMsgType_Peek ==
    /\ pc = "read"
    /\ msg_type' = Read(1)
    /\ pos' = pos
    /\ pc' = IF LoopContinues(Read(1)) THEN "check" ELSE "close"
    /\ UNCHANGED <<stream, closed, outcome, tz>>
    /\ UNCHANGED aggVars

\* msg_type = Parser.read_binary_msg_type(), then the test of the while loop.
ReadBinaryMsgType ==
    /\ pc = "read"
    /\ msg_type' = Read(1)
    /\ pos' = pos + Len(Read(1))
    /\ pc' = IF LoopContinues(Read(1)) THEN "check" ELSE "close"
    /\ UNCHANGED <<stream, closed, outcome, tz>>
    /\ UNCHANGED aggVars

(***************************************************************************)
(* Parser.process_trade.                                                   *)
(***************************************************************************)
\* Variant: any change of hour closes the bucket.
NewHourReached_AnyChange(cur, hour) == cur # hour

\* Variant: the successor hour is taken without the wrap at midnight.
NewHourReached_NoWrap(cur, hour) == cur + 1 = hour

\* The test of line 109.
NewHourReached(cur, hour) == (cur + 1) % 24 = hour

\* Variant: the record that closes a bucket is not appended to the new one.
BucketAfter_DropOnFlush(bucket, flush, x) ==
    IF flush THEN <<>> ELSE Append(bucket, x)

\* Variant: the bucket is not emptied on a flush.
BucketAfter_NoReset(bucket, flush, x) == Append(bucket, x)

\* self.data = [] on a flush (line 126), then self.data.append (line 130).
BucketAfter(bucket, flush, x) == Append(IF flush THEN <<>> ELSE bucket, x)

\* Variant: the current hour is not moved on a flush.
HourAfter_Stays(cur, hour) == IF cur = None THEN hour ELSE cur

\* Variant: the current hour follows every record of another hour.
HourAfter_FollowsRecord(cur, hour) == hour

\* Variant: the first record does not open a bucket.
HourAfter_KeepsNone(cur, hour) ==
    IF cur # None /\ NewHourReached(cur, hour) THEN hour ELSE cur

\* The current hour after the if / elif of lines 105-127.
HourAfter(cur, hour) ==
    IF cur = None THEN hour
    ELSE IF NewHourReached(cur, hour) THEN hour
    ELSE cur

\* The hour process_trade derives for a 43-byte msg (lines 102-103).
HourOf(msg) == IntOfDigits(convert_time(parse(msg).timestamp, tz))

\* Variant: the table is labelled with the hour that has just begun.
ResultLabel_NewHour(cur, hour) == hour

\* The hour in the file name and after "time:" (lines 119-120).
ResultLabel(cur, hour) == cur

\* The body of process_trade for a msg that struct.unpack accepts.
ProcessTrade(msg) ==
    LET parsed == parse(msg).parsed
        hour   == HourOf(msg)
        flush  == currentHour # None /\ NewHourReached(currentHour, hour)
        label  == ResultLabel(currentHour, hour)
        result == [hour |-> label, table |-> VWAPTable(data)]
    IN  /\ currentHour' = HourAfter(currentHour, hour)
        /\ out' = IF flush THEN Append(out, result) ELSE out
        /\ files' = IF flush THEN [files EXCEPT ![label] = result.table]
                    ELSE files
        /\ data' = BucketAfter(data, flush, parsed)
        /\ trades' = Append(trades, [hour |-> hour, cur |-> currentHour,
                                     ts |-> parse(msg).timestamp,
                                     msg |-> msg,
                                     rec |-> parsed,
                                     stock |-> parsed.Stock,
                                     shares |-> parsed.Shares,
                                     price |-> UnpackU32(SubSeq(msg, 32, 35))])
        /\ dataIdx' = BucketAfter(dataIdx, flush, Len(trades) + 1)
        /\ outIdx' = IF flush THEN Append(outIdx, dataIdx) ELSE outIdx

(***************************************************************************)
(* Parser.check_for_trade_msg, as called from the loop of __main__.        *)
(***************************************************************************)
\* self.msg_size_table[msg_type] raises KeyError.
KeyError(t) == t[1] \notin DOMAIN NASDAQ_MSG_SIZES

\* msg_type == b'P'
IsTrade(t) == t[1] = TradeTag

\* Variant: the declared length is taken to count the tag.
BodySize_WithTag(t) == NASDAQ_MSG_SIZES[t[1]] + 1

\* self.msg_size_table[msg_type]
BodySize(t) == NASDAQ_MSG_SIZES[t[1]]

CheckForTradeMsg ==
    /\ pc = "check"
    /\ UNCHANGED <<stream, closed, msg_type, tz>>
    /\ IF KeyError(msg_type)
       THEN \* except KeyError: pass
            /\ pc' = "read"
            /\ UNCHANGED <<pos, outcome>>
            /\ UNCHANGED aggVars
       ELSE LET msg == Read(BodySize(msg_type))
            IN  /\ pos' = pos + Len(msg)
                /\ IF ~IsTrade(msg_type)
                   THEN /\ pc' = "read"
                        /\ UNCHANGED outcome
                        /\ UNCHANGED aggVars
                   ELSE IF StructError(msg)
                   THEN \* struct.error leaves parse, process_trade and the loop
                        /\ pc' = "exit"
                        /\ outcome' = "struct.error"
                        /\ UNCHANGED aggVars
                   ELSE /\ pc' = "read"
                        /\ UNCHANGED outcome
                        /\ ProcessTrade(msg)

(***************************************************************************)
(* The end of __main__.                                                    *)
(***************************************************************************)
\* Variant: closing also prints the table of the bucket still open.
CloseBinary_Flush ==
    /\ pc = "close"
    /\ closed' = TRUE
    /\ pc' = "save"
    /\ out' = IF data # <<>>
              THEN Append(out, [hour |-> currentHour, table |-> VWAPTable(data)])
              ELSE out
    /\ outIdx' = IF data # <<>> THEN Append(outIdx, dataIdx) ELSE outIdx
    /\ UNCHANGED <<stream, pos, msg_type, outcome, tz>>
    /\ UNCHANGED <<data, currentHour, files, trades, dataIdx>>

\* Parser.close_binary()
CloseBinary ==
    /\ pc = "close"
    /\ closed' = TRUE
    /\ pc' = "save"
    /\ UNCHANGED <<stream, pos, msg_type, outcome, tz>>
    /\ UNCHANGED aggVars

\* Parser.save_excel(): the class defines no such method.
SaveExcel ==
    /\ pc = "save"
    /\ outcome' = "AttributeError"
    /\ pc' = "exit"
    /\ UNCHANGED <<stream, pos, closed, msg_type, tz>>
    /\ UNCHANGED aggVars

Next ==
    \/ ReadBinaryMsgType
    \/ CheckForTradeMsg
    \/ CloseBinary
    \/ SaveExcel

Spec == Init /\ [][Next]_vars

(***************************************************************************)
(* Parser.process_trade applied to a sequence of trade records, without    *)
(* the framing loop around it.                                             *)
(***************************************************************************)
InitTrades ==
    /\ stream = <<>>
    /\ tz \in TZOffsets
    /\ pos = 0
    /\ closed = FALSE
    /\ msg_type = <<>>
    /\ pc = "trades"
    /\ outcome = "running"
    /\ data = <<>>
    /\ currentHour = None
    /\ out = <<>>
    /\ files = [h \in 0..23 |-> <<>>]
    /\ trades = <<>>
    /\ dataIdx = <<>>
    /\ outIdx = <<>>

ProcessTradeCall ==
    /\ pc = "trades"
    /\ Len(trades) < MaxTrades
    /\ \E msg \in TradeBodies : ProcessTrade(msg)
    /\ UNCHANGED <<stream, pos, closed, msg_type, pc, outcome, tz>>

NextTrades == ProcessTradeCall

SpecTrades == InitTrades /\ [][NextTrades]_vars

(***************************************************************************)
(* Parser.process_trade applied once to the encoding of known fields.      *)
(***************************************************************************)
ProcessEncodedTrade ==
    /\ pc = "trades"
    /\ trades = <<>>
    /\ \E f \in RoundTripFields : ProcessTrade(EncodeBody(f))
    /\ UNCHANGED <<stream, pos, closed, msg_type, pc, outcome, tz>>

NextRoundTrip == ProcessEncodedTrade

SpecRoundTrip == InitTrades /\ [][NextRoundTrip]_vars

(***************************************************************************)
(* Vocabulary of the properties.                                           *)
(***************************************************************************)
\* The records the k-th printed table was computed from.
ClosedBucket(k) == [j \in DOMAIN outIdx[k] |-> trades[outIdx[k][j]]]

\* The first n records processed all have the derived hour of the first.
SameHourSoFar(n) == \A i \in 1..n : trades[i].hour = trades[1].hour

\* The record met an open bucket of the hour before its own.
Trigger(t) == t.cur # None /\ (t.cur + 1) % 24 = t.hour

\* The record's hour is the hour of the bucket it met or the next one.
InSequence(t) == t.cur = None \/ t.hour = t.cur \/ t.hour = (t.cur + 1) % 24

\* Exact sums over the records of stock s, in integers.
RECURSIVE ExactShares(_, _)
ExactShares(recs, s) ==
    IF recs = <<>> THEN 0
    ELSE (IF Head(recs).stock = s THEN Head(recs).shares ELSE 0)
         + ExactShares(Tail(recs), s)

RECURSIVE ExactNotional(_, _)
ExactNotional(recs, s) ==
    IF recs = <<>> THEN 0
    ELSE (IF Head(recs).stock = s THEN Head(recs).shares * Head(recs).price
          ELSE 0)
         + ExactNotional(Tail(recs), s)

Abs(x) == IF x < 0 THEN -x ELSE x

\* v hundredths is the exact quotient notional / shares (notional in
\* ten-thousandths) rounded to 2 decimal places: it is within half a
\* hundredth of it.
IsRoundedVWAP(v, notional, shares) ==
    /\ shares > 0
    /\ v # NaN
    /\ 2 * Abs(100 * v * shares - notional) <= 100 * shares

\* The file from byte i + 1 on is a concatenation of complete messages whose
\* tags are keys of the length table.
RECURSIVE WellFormedFrom(_, _)
WellFormedFrom(s, i) ==
    IF i >= Len(s) THEN i = Len(s)
    ELSE /\ s[i + 1] \in DOMAIN NASDAQ_MSG_SIZES
         /\ i + 1 + NASDAQ_MSG_SIZES[s[i + 1]] <= Len(s)
         /\ WellFormedFrom(s, i + 1 + NASDAQ_MSG_SIZES[s[i + 1]])

WellFormed == WellFormedFrom(stream, 0)

\* The exceptions that end a run.
ErrorOutcomes == {"struct.error", "AttributeError"}

(***************************************************************************)
(* C1.  While all the records processed so far have one derived hour H,    *)
(* nothing has been printed; and when the records before the last one all  *)
(* have hour H and something has been printed, the last record has the     *)
(* derived hour (H + 1) mod 24.                                            *)
(***************************************************************************)
C1_NoResultWithinOneHour ==
    /\ (trades # <<>> /\ SameHourSoFar(Len(trades))) => out = <<>>
    /\ (Len(trades) >= 2 /\ SameHourSoFar(Len(trades) - 1) /\ out # <<>>)
          => trades[Len(trades)].hour = (trades[1].hour + 1) % 24

\* Three records of one hour have been processed and nothing is printed.
C1_Witness ==
    /\ Len(trades) >= 3
    /\ SameHourSoFar(Len(trades))
    /\ out = <<>>

(***************************************************************************)
(* C2.  Every printed table has exactly one row for each stock with a      *)
(* record in the closed bucket, and the value of the row is                *)
(* sum(shares * price) / sum(shares) over the stock's records rounded to   *)
(* 2 decimal places.                                                       *)
(***************************************************************************)
C2_TableIsRoundedVWAP ==
    \A k \in DOMAIN out :
        LET recs   == ClosedBucket(k)
            stocks == {recs[j].stock : j \in DOMAIN recs}
            table  == out[k].table
        IN  /\ {table[r].Stock : r \in DOMAIN table} = stocks
            /\ Len(table) = Cardinality(stocks)
            /\ \A r \in DOMAIN table :
                  IsRoundedVWAP(table[r].VWAP,
                                ExactNotional(recs, table[r].Stock),
                                ExactShares(recs, table[r].Stock))

(***************************************************************************)
(* C3.  As claimed: every record a printed table labelled L was computed   *)
(* from has the derived hour L.                                            *)
(***************************************************************************)
C3_OnlyRecordsOfTheHour ==
    \A k \in DOMAIN out :
        \A j \in DOMAIN outIdx[k] : ClosedBucket(k)[j].hour = out[k].hour

(***************************************************************************)
(* C3, amended.  The first record a printed table labelled L was computed  *)
(* from has the derived hour L, none of its records has the derived hour   *)
(* (L + 1) mod 24, and when each of its records had the hour of the bucket *)
(* it met or the next one, all of them have the derived hour L.            *)
(***************************************************************************)
C3_NoRecordOfTheNextHour ==
    \A k \in DOMAIN out :
        LET recs == ClosedBucket(k)
            L    == out[k].hour
        IN  /\ recs # <<>>
            /\ recs[1].hour = L
            /\ \A j \in DOMAIN recs : recs[j].hour # (L + 1) % 24
            /\ (\A j \in DOMAIN recs : InSequence(recs[j]))
                  => \A j \in DOMAIN recs : recs[j].hour = L

\* A table has been printed whose bucket holds a record of another hour.
C3_Witness ==
    \E k \in DOMAIN out :
        \E j \in DOMAIN outIdx[k] : ClosedBucket(k)[j].hour # out[k].hour

(***************************************************************************)
(* C4.  When the open bucket has hour 23 and a record of derived hour 0 is *)
(* processed, one table is printed, it is labelled 23, and the bucket's    *)
(* hour becomes 0.                                                         *)
(***************************************************************************)
C4_MidnightWrap ==
    [][(/\ currentHour = 23
        /\ Len(trades') = Len(trades) + 1
        /\ trades'[Len(trades')].hour = 0)
          => /\ Len(out') = Len(out) + 1
             /\ out'[Len(out')].hour = 23
             /\ currentHour' = 0
             /\ Len(data') = 1]_vars

\* A record of hour 0 has just met the bucket of hour 23.
C4_Witness ==
    /\ trades # <<>>
    /\ trades[Len(trades)].cur = 23
    /\ trades[Len(trades)].hour = 0
    /\ out # <<>>
    /\ out[Len(out)].hour = 23

(***************************************************************************)
(* C5.  The table printed for a bucket whose records all have one derived  *)
(* hour is the table of every reordering of these records.                 *)
(***************************************************************************)
C5_OrderIndependent ==
    \A k \in DOMAIN out :
        LET recs == ClosedBucket(k)
        IN  (\A j \in DOMAIN recs : recs[j].hour = out[k].hour)
               => \A p \in Permutations(DOMAIN recs) :
                     VWAPTable([j \in DOMAIN recs |-> recs[p[j]].rec])
                        = out[k].table

(***************************************************************************)
(* C6.  When the byte read as a type tag is not a key of the length table, *)
(* the run stops there with the outcome UnknownMessageTypeError: nothing   *)
(* more is read and no record reaches process_trade.                       *)
(***************************************************************************)
C6_UnknownTagStops ==
    [][(pc = "check" /\ KeyError(msg_type))
          => /\ pc' = "exit"
             /\ outcome' = "UnknownMessageTypeError"
             /\ pos' = pos
             /\ trades' = trades]_vars

(***************************************************************************)
(* C7.  When a tag of the length table is followed by fewer bytes than its *)
(* declared length, the run ends there with a truncation error (the        *)
(* struct.error of parse counts as one), data and the current hour are     *)
(* unchanged and nothing is printed.                                       *)
(***************************************************************************)
C7_TruncatedBodyStops ==
    [][(/\ pc = "check"
        /\ ~KeyError(msg_type)
        /\ Len(stream) - pos < NASDAQ_MSG_SIZES[msg_type[1]])
          => /\ pc' = "exit"
             /\ outcome' \in {"TruncatedStreamError", "struct.error"}
             /\ data' = data
             /\ currentHour' = currentHour
             /\ out' = out]_vars

(***************************************************************************)
(* C8.  Once the loop has ended, the number of printed tables is the       *)
(* number of records that met a bucket of the hour before their own, and   *)
(* no record of the bucket still open is in a printed table.               *)
(***************************************************************************)
C8_LastBucketNotFlushed ==
    pc \in {"close", "save", "exit"} =>
        /\ Len(out) = Cardinality({i \in DOMAIN trades : Trigger(trades[i])})
        /\ Len(dataIdx) = Len(data)
        /\ \A j \in DOMAIN dataIdx :
              \A k \in DOMAIN outIdx :
                 \A m \in DOMAIN outIdx[k] : outIdx[k][m] # dataIdx[j]

\* The file is exhausted and closed after a table was printed, and the
\* bucket still open holds records.
C8_Witness ==
    /\ pc = "exit"
    /\ closed
    /\ pos = Len(stream)
    /\ out # <<>>
    /\ data # <<>>

(***************************************************************************)
(* C9.  A run over a file made only of complete messages with tags of the  *)
(* length table does not end with an error.                                *)
(***************************************************************************)
C9_CleanEndOfStream ==
    (WellFormed /\ pc = "exit") => outcome \notin ErrorOutcomes

(***************************************************************************)
(* C10.  The hour process_trade derives for a record of timestamp t is     *)
(* (t div 3,600,000,000,000) mod 24, whatever the time zone of the         *)
(* machine: with t = 10^9 * sec + nsec, that is (sec div 3600) mod 24.     *)
(***************************************************************************)
C10_HourOfTimestamp ==
    \A i \in DOMAIN trades :
        /\ trades[i].hour \in 0..23
        /\ trades[i].hour = (trades[i].ts.sec \div 3600) % 24

(***************************************************************************)
(* C11.  As claimed: when the body processed is the encoding of fields     *)
(* whose symbol has at most 8 characters, parse returned the timestamp,    *)
(* the symbol and the shares of the fields, and the float nearest to the   *)
(* price of the fields (rint(Price * 10000) is the price).                 *)
(***************************************************************************)
RoundTrips(t, f) ==
    /\ t.ts = f.ts
    /\ t.rec.Stock = f.symbol
    /\ t.rec.Shares = f.shares
    /\ FRint(FMulInt(t.rec.Price, 10000)) = f.price

C11_RoundTrip ==
    \A i \in DOMAIN trades :
        \A f \in RoundTripFields :
            (trades[i].msg = EncodeBody(f) /\ Len(f.symbol) <= 8)
               => RoundTrips(trades[i], f)

(***************************************************************************)
(* C11, amended.  The same for fields whose symbol has at most 8 bytes in  *)
(* UTF-8.                                                                  *)
(***************************************************************************)
C11_RoundTripOfEightBytes ==
    \A i \in DOMAIN trades :
        \A f \in RoundTripFields :
            (trades[i].msg = EncodeBody(f) /\ Len(Utf8Encode(f.symbol)) <= 8)
               => RoundTrips(trades[i], f)

\* The encoding of the largest timestamp with an 8-letter symbol has been
\* decoded.
C11_Witness ==
    \E i \in DOMAIN trades :
        \E f \in RoundTripFields :
            /\ trades[i].msg = EncodeBody(f)
            /\ f.ts.sec = 281474
            /\ Len(f.symbol) = 8
            /\ Len(Utf8Encode(f.symbol)) = 8
            /\ f.shares = 2147483647
            /\ trades[i].rec.Stock = f.symbol

(***************************************************************************)
(* Vocabulary of the properties of one call of process_trade.              *)
(***************************************************************************)
\* The step is one call of process_trade.
Processed == Len(trades') = Len(trades) + 1

\* The record of the call, as the history keeps it.
Rec == trades'[Len(trades')]

\* The rows of the open bucket, rebuilt from the history of the records.
RowsOf(idx) == [j \in DOMAIN idx |-> trades[idx[j]].rec]

(***************************************************************************)
(* C12.  When a record whose derived hour is (cur + 1) mod 24 is processed *)
(* while a bucket of hour cur is open, exactly one table is printed and    *)
(* written, it is labelled cur and computed from the rows the bucket held  *)
(* before the call and not from the record, and afterwards the current     *)
(* hour is (cur + 1) mod 24 and the bucket holds the record alone.         *)
(***************************************************************************)
C12_FlushOnNextHour ==
    [][(Processed /\ currentHour # None /\ Rec.hour = (currentHour + 1) % 24)
         => /\ Len(out') = Len(out) + 1
            /\ SubSeq(out', 1, Len(out)) = out
            /\ out'[Len(out')].hour = currentHour
            /\ out'[Len(out')].table = VWAPTable(RowsOf(dataIdx))
            /\ data = RowsOf(dataIdx)
            /\ outIdx'[Len(outIdx')] = dataIdx
            /\ \A j \in DOMAIN dataIdx : dataIdx[j] # Len(trades')
            /\ files' = [files EXCEPT ![currentHour] = VWAPTable(data)]
            /\ currentHour' = (currentHour + 1) % 24
            /\ data' = <<Rec.rec>>
            /\ dataIdx' = <<Len(trades')>>]_vars

\* A bucket of two records or more has been closed by the last record.
C12_Witness ==
    /\ trades # <<>>
    /\ out # <<>>
    /\ Trigger(trades[Len(trades)])
    /\ Len(outIdx[Len(outIdx)]) >= 2
    /\ currentHour = (out[Len(out)].hour + 1) % 24
    /\ Len(data) = 1

(***************************************************************************)
(* C13.  When a record whose derived hour is neither cur nor               *)
(* (cur + 1) mod 24 is processed while a bucket of hour cur is open, the   *)
(* record is appended to the bucket, the current hour stays cur, and       *)
(* nothing is printed or written.                                          *)
(***************************************************************************)
C13_OutOfSequenceAppended ==
    [][(/\ Processed
        /\ currentHour # None
        /\ Rec.hour # currentHour
        /\ Rec.hour # (currentHour + 1) % 24)
         => /\ data' = Append(data, Rec.rec)
            /\ currentHour' = currentHour
            /\ out' = out
            /\ files' = files]_vars

\* The last record met a bucket of an hour that is neither its own nor the
\* one before, and the bucket holds it after an earlier record.
C13_Witness ==
    /\ Len(trades) >= 2
    /\ ~InSequence(trades[Len(trades)])
    /\ Len(data) >= 2
    /\ data[Len(data)] = trades[Len(trades)].rec
    /\ currentHour = trades[Len(trades)].cur

(***************************************************************************)
(* Vocabulary of the framing properties.                                   *)
(***************************************************************************)
\* The offsets at which the messages of the file s begin, from offset i on,
\* as the tags and the length table alone determine them: each message is
\* its tag and as many bytes as the table declares for the tag.
RECURSIVE FrameStartsFrom(_, _)
FrameStartsFrom(s, i) ==
    IF i >= Len(s) \/ s[i + 1] \notin DOMAIN NASDAQ_MSG_SIZES THEN <<>>
    ELSE <<i>> \o FrameStartsFrom(s, i + 1 + NASDAQ_MSG_SIZES[s[i + 1]])

FrameStarts == FrameStartsFrom(stream, 0)

\* The end of the message that begins at offset i.
FrameEnd(i) == i + 1 + NASDAQ_MSG_SIZES[stream[i + 1]]

\* The bodies of the trade messages among the frames that end at or before
\* offset p, in the order of the file.
RECURSIVE TradeBodiesUpTo(_, _)
TradeBodiesUpTo(starts, p) ==
    IF starts = <<>> \/ FrameEnd(Head(starts)) > p THEN <<>>
    ELSE (IF stream[Head(starts) + 1] = TradeTag
          THEN <<SubSeq(stream, Head(starts) + 2, FrameEnd(Head(starts)))>>
          ELSE <<>>)
         \o TradeBodiesUpTo(Tail(starts), p)

\* The messages handed to process_trade so far.
Delivered == [i \in DOMAIN trades |-> trades[i].msg]

(***************************************************************************)
(* C14.  When check_for_trade_msg handles a tag that is a key of the       *)
(* length table other than 'P' and the file holds the whole body, the      *)
(* cursor moves by exactly the declared length and the current hour, the   *)
(* bucket, the printed tables and the files stay as they were.             *)
(***************************************************************************)
C14_OtherMessagesSkipped ==
    [][(/\ pc = "check"
        /\ msg_type[1] \in DOMAIN NASDAQ_MSG_SIZES
        /\ msg_type[1] # 80
        /\ pos + NASDAQ_MSG_SIZES[msg_type[1]] <= Len(stream))
         => /\ pos' = pos + NASDAQ_MSG_SIZES[msg_type[1]]
            /\ currentHour' = currentHour
            /\ data' = data
            /\ out' = out
            /\ files' = files
            /\ trades' = trades]_vars

\* A complete system event message has been skipped while a bucket is open.
C14_Witness ==
    /\ pc = "read"
    /\ data # <<>>
    /\ \E k \in DOMAIN FrameStarts :
          /\ stream[FrameStarts[k] + 1] = 83
          /\ FrameEnd(FrameStarts[k]) = pos

(***************************************************************************)
(* C15.  On a file that is a concatenation of complete messages whose tags *)
(* are keys of the length table: whenever a tag is about to be read the    *)
(* cursor is at the end of the file or at the first byte of a message      *)
(* (the sum of 1 + declared length over the messages before it), a tag     *)
(* that has been read is the first byte of a message, the bodies handed    *)
(* to process_trade are exactly the bodies of the trade messages framed    *)
(* so far, once each and in the order of the file, and the loop ends at    *)
(* the end of the file.                                                    *)
(***************************************************************************)
IsFrameStart(p) == \E k \in DOMAIN FrameStarts : FrameStarts[k] = p

C15_FramingAligned ==
    WellFormed =>
        /\ pc = "read" => (pos = Len(stream) \/ IsFrameStart(pos))
        /\ pc = "check" => (IsFrameStart(pos - 1) /\ msg_type = <<stream[pos]>>)
        /\ pc \in {"close", "save", "exit"} => pos = Len(stream)
        /\ Delivered = TradeBodiesUpTo(FrameStarts, pos)

\* A file of three trade messages and a system event message has been read
\* to its end.
C15_Witness ==
    /\ WellFormed
    /\ pc = "exit"
    /\ Len(FrameStarts) = 4
    /\ Len(trades) = 3
    /\ \E k \in DOMAIN FrameStarts : stream[FrameStarts[k] + 1] # 80

(***************************************************************************)
(* C16.  When check_for_trade_msg handles a complete trade message whose   *)
(* 8 symbol bytes, stripped, are not valid UTF-8, the loop goes on to the  *)
(* next tag without an exception, the record is appended to the bucket     *)
(* with the stock "N/A" and the shares and price of the message, and the   *)
(* hour logic is the one of any record: a table is printed exactly when    *)
(* the record's hour is the one after the open bucket's, and the current   *)
(* hour becomes the record's hour then and when no bucket was open, and    *)
(* stays otherwise.                                                        *)
(***************************************************************************)
SymbolUndecodable(p) == ~Utf8Decode(Strip(SubSeq(stream, p + 24, p + 31))).ok

C16_UndecodableSymbol ==
    [][(/\ pc = "check"
        /\ msg_type = <<80>>
        /\ pos + 43 <= Len(stream)
        /\ SymbolUndecodable(pos))
         => /\ pc' = "read"
            /\ outcome' = "running"
            /\ pos' = pos + 43
            /\ Processed
            /\ Rec.rec.Stock = <<78, 47, 65>>
            /\ Rec.rec.Shares = UnpackU32(SubSeq(stream, pos + 20, pos + 23))
            /\ FRint(FMulInt(Rec.rec.Price, 10000))
                  = UnpackU32(SubSeq(stream, pos + 32, pos + 35))
            /\ data'[Len(data')] = Rec.rec
            /\ (out' # out) <=> (currentHour # None
                                 /\ Rec.hour = (currentHour + 1) % 24)
            /\ currentHour' = IF currentHour = None \/ out' # out
                              THEN Rec.hour ELSE currentHour]_vars

\* A record with the stock "N/A" has closed a bucket and a later trade
\* message has been processed after it.
C16_Witness ==
    /\ pc = "read"
    /\ outcome = "running"
    /\ \E i \in DOMAIN trades :
          /\ i < Len(trades)
          /\ trades[i].rec.Stock = <<78, 47, 65>>
          /\ Trigger(trades[i])
          /\ dataIdx = <<i, i + 1>>

(***************************************************************************)
(* C17.  In every printed table, each stock of the table has a positive    *)
(* total of shares over the records of the closed bucket, and its VWAP is  *)
(* a number: the division of line 115 was not a division by zero.          *)
(***************************************************************************)
C17_NoZeroShareGroup ==
    \A k \in DOMAIN out :
        \A r \in DOMAIN out[k].table :
            /\ ExactShares(ClosedBucket(k), out[k].table[r].Stock) > 0
            /\ SumShares(RowsOf(outIdx[k]), out[k].table[r].Stock) # 0
            /\ out[k].table[r].VWAP # NaN

(***************************************************************************)
(* C18.  Before the first record no bucket is open.  After the first       *)
(* record the current hour is that record's hour, the bucket holds that    *)
(* record alone and nothing is printed.  After every later call the        *)
(* current hour is an hour (never None again) and the bucket holds at      *)
(* least one record, the last one processed; so every printed table was    *)
(* computed from at least one record and has at least one row.             *)
(***************************************************************************)
C18_BucketOpenAndNonEmpty ==
    /\ trades = <<>> => (currentHour = None /\ data = <<>> /\ out = <<>>)
    /\ Len(trades) = 1 => /\ currentHour = trades[1].hour
                          /\ data = <<trades[1].rec>>
                          /\ out = <<>>
    /\ trades # <<>> => /\ currentHour \in 0..23
                        /\ Len(data) >= 1
                        /\ data[Len(data)] = trades[Len(trades)].rec
    /\ \A k \in DOMAIN out : Len(outIdx[k]) >= 1 /\ Len(out[k].table) >= 1

\* Two tables have been printed, each from a bucket of one record.
C18_Witness ==
    /\ Len(out) = 2
    /\ \A k \in DOMAIN out : Len(outIdx[k]) = 1
    /\ Len(data) = 1

(***************************************************************************)
(* C19.  The label of the first printed table is the derived hour of the   *)
(* first record processed, the label of every later table is the label of  *)
(* the table before it plus 1 modulo 24, and two tables with fewer than 23 *)
(* tables between them have different labels.                              *)
(***************************************************************************)
C19_LabelsAdvanceByOne ==
    /\ out # <<>> => out[1].hour = trades[1].hour
    /\ \A k \in 2..Len(out) : out[k].hour = (out[k - 1].hour + 1) % 24
    /\ \A j, k \in DOMAIN out :
          (j < k /\ k - j < 24) => out[j].hour # out[k].hour

\* Tables labelled 23 and 0 have been printed one after the other.
C19_Witness ==
    /\ Len(out) >= 2
    /\ out[1].hour = 23
    /\ out[2].hour = 0
    /\ trades[1].hour = 23

(***************************************************************************)
(* C20.  Every record processed is a row of the open bucket or one of the  *)
(* records of exactly one printed table, not both and not of two tables;   *)
(* and the shares of the records of all printed tables plus the shares of  *)
(* the rows of the open bucket add up to the shares of all the records     *)
(* processed.                                                              *)
(***************************************************************************)
\* How many times the record i occurs in the index sequence idx.
Occurrences(idx, i) == Cardinality({j \in DOMAIN idx : idx[j] = i})

RECURSIVE OccurrencesInTables(_, _)
OccurrencesInTables(k, i) ==
    IF k = 0 THEN 0
    ELSE Occurrences(outIdx[k], i) + OccurrencesInTables(k - 1, i)

RECURSIVE TotalShares(_)
TotalShares(rows) ==
    IF rows = <<>> THEN 0 ELSE Head(rows).Shares + TotalShares(Tail(rows))

RECURSIVE SharesOfTables(_)
SharesOfTables(k) ==
    IF k = 0 THEN 0
    ELSE TotalShares(RowsOf(outIdx[k])) + SharesOfTables(k - 1)

C20_RecordsConserved ==
    /\ \A i \in DOMAIN trades :
          Occurrences(dataIdx, i) + OccurrencesInTables(Len(outIdx), i) = 1
    /\ Len(outIdx) = Len(out)
    /\ data = RowsOf(dataIdx)
    /\ SharesOfTables(Len(outIdx)) + TotalShares(data)
          = TotalShares([i \in DOMAIN trades |-> trades[i].rec])

\* Four records with 400 shares in all: some in a printed table, the others
\* in the open bucket.
C20_Witness ==
    /\ Len(trades) = 4
    /\ Len(out) = 1
    /\ Len(outIdx[1]) = 2
    /\ Len(data) = 2
    /\ TotalShares(data) > 0
    /\ SharesOfTables(1) > 0

====
